---- MODULE Spec2Model ----
(***************************************************************************)
(* A model of BlankGenerator, a static site generator: the configuration   *)
(* overlay (config.py), the converter registry (plugin.py), the template   *)
(* resolver chain (template.py) and the page tree (nodes.py).              *)
(*                                                                         *)
(* Each component has its own specification over its own variables; the    *)
(* variables of the other components stay at their idle values.            *)
(***************************************************************************)
EXTENDS Integers, Sequences, FiniteSets, TLC

VARIABLES
  mx, my, mresult, mpc,          \* merge_dict: the arguments, the result, the position
  configs, cfgCall,              \* the Config objects alive, and the last call made
  converters, regLog, lookup,    \* the ConvertersMap, the registrations made, the last lookup
  tdirParent, tmplFiles, resolved, \* directories, their .template files, the last resolution
  pfile, pclass,                 \* a file given to Page(source, parent), and the outcome
  upage, uurl,                    \* an index-capable page, and its url()
  rlines, rresult,              \* the lines of a renderable file, and what is read from it
  bucket, bpages, bpc,          \* a bucket specification with its children, and the pages made of it
  fs, rel,                      \* the source tree, and the last relations_info() computed
  site, trav,                   \* a source tree, and the last traversal made of one of its directories
  plan, dest, cursor, bstat,     \* build_all: the nodes walked, the destination files, the loop position
  wpc, events, arrived, inflight, wlog  \* watch mode: the watcher's position, the event queue, the builds in flight, what was done

mergeVars == <<mx, my, mresult, mpc>>
cfgVars == <<configs, cfgCall>>
regVars == <<converters, regLog, lookup>>
tmplVars == <<tdirParent, tmplFiles, resolved>>
pageVars == <<pfile, pclass>>
urlVars == <<upage, uurl>>
readVars == <<rlines, rresult>>
bucketVars == <<bucket, bpages, bpc>>
treeVars == <<fs, rel>>
siteVars == <<site, trav>>
buildVars == <<plan, dest, cursor, bstat>>
watchVars == <<wpc, events, arrived, inflight, wlog>>
vars == <<mergeVars, cfgVars, regVars, tmplVars, pageVars, urlVars, readVars, bucketVars, treeVars, siteVars, buildVars, watchVars>>

\* What each component leaves alone.
notMerge == <<cfgVars, regVars, tmplVars, pageVars, urlVars, readVars, bucketVars, treeVars, siteVars, buildVars, watchVars>>
notCfg == <<mergeVars, regVars, tmplVars, pageVars, urlVars, readVars, bucketVars, treeVars, siteVars, buildVars, watchVars>>
notReg == <<mergeVars, cfgVars, tmplVars, pageVars, urlVars, readVars, bucketVars, treeVars, siteVars, buildVars, watchVars>>
notTmpl == <<mergeVars, cfgVars, regVars, pageVars, urlVars, readVars, bucketVars, treeVars, siteVars, buildVars, watchVars>>
notPage == <<mergeVars, cfgVars, regVars, tmplVars, urlVars, readVars, bucketVars, treeVars, siteVars, buildVars, watchVars>>
notUrl == <<mergeVars, cfgVars, regVars, tmplVars, pageVars, readVars, bucketVars, treeVars, siteVars, buildVars, watchVars>>
notRead == <<mergeVars, cfgVars, regVars, tmplVars, pageVars, urlVars, bucketVars, treeVars, siteVars, buildVars, watchVars>>
notBucket == <<mergeVars, cfgVars, regVars, tmplVars, pageVars, urlVars, readVars, treeVars, siteVars, buildVars, watchVars>>
notTree == <<mergeVars, cfgVars, regVars, tmplVars, pageVars, urlVars, readVars, bucketVars, siteVars, buildVars, watchVars>>
notSite == <<mergeVars, cfgVars, regVars, tmplVars, pageVars, urlVars, readVars, bucketVars, treeVars, buildVars, watchVars>>
notBuild == <<mergeVars, cfgVars, regVars, tmplVars, pageVars, urlVars, readVars, bucketVars, treeVars, siteVars, watchVars>>
notWatch == <<mergeVars, cfgVars, regVars, tmplVars, pageVars, urlVars, readVars, bucketVars, treeVars, siteVars, buildVars>>

(***************************************************************************)
(* Python's None, for object references (objects are numbered from 1).     *)
(***************************************************************************)
None == 0

(***************************************************************************)
(* JSON-like values, as YAML produces them: a scalar, a sequence or a      *)
(* mapping.  A value carries its type tag, as a Python object does, so     *)
(* that isinstance(v, dict) is a test of the tag.  A dict is a function    *)
(* from its keys to values.                                                *)
(***************************************************************************)
Scalar(n) == [t |-> "scalar", v |-> n]
SeqVal(s) == [t |-> "seq", v |-> s]
MapVal(m) == [t |-> "map", v |-> m]
NoneVal == [t |-> "none", v |-> 0]

EmptyDict == [k \in {} |-> NoneVal]

IsDict(v) == v.t = "map"

Put(f, k, v) == [j \in DOMAIN f \cup {k} |-> IF j = k THEN v ELSE f[j]]

(***************************************************************************)
(* Bounds of the value universe.                                           *)
(***************************************************************************)
MaxScalar == 2

Keys == {"a", "b"}

Leaves == {Scalar(n) : n \in 1..MaxScalar} \cup {SeqVal(<<1>>)}

PartialFns(K, V) == UNION {[D -> V] : D \in SUBSET K}

Dicts1 == PartialFns(Keys, Leaves)

Dicts2 == PartialFns(Keys, Leaves \cup {MapVal(m) : m \in Dicts1})

(***************************************************************************)
(* config.py                                                               *)
(***************************************************************************)

\* A plausible bug: a one-level dict.update(), nested mappings replaced.
merge_dict_shallow(x, y) ==
  [k \in DOMAIN x \cup DOMAIN y |-> IF k \in DOMAIN y THEN y[k] ELSE x[k]]

RECURSIVE merge_dict(_, _)
RECURSIVE MergeLoop(_, _, _)

\* The second loop of merge_dict: the items of y not yet visited are todo.
MergeLoop(result, y, todo) ==
  IF todo = {} THEN result
  ELSE LET k == CHOOSE j \in todo : TRUE
           v == y[k]
       IN MergeLoop(IF k \in DOMAIN result /\ IsDict(result[k]) /\ IsDict(v)
                      THEN Put(result, k, MapVal(merge_dict(result[k].v, v.v)))
                      ELSE Put(result, k, v),
                    y, todo \ {k})

\* The first loop copies x into result; the second overlays y.
merge_dict(x, y) ==
  MergeLoop(x, y, DOMAIN y)

\* A plausible bug: the arguments of the constructor's merge swapped.
ConfigInitParentWins(data, parent, heap) ==
  LET own == IF data.t = "none" THEN EmptyDict ELSE data.v
  IN [parent |-> parent,
      config |-> IF parent # None THEN merge_dict(own, heap[parent].config)
                 ELSE own]

\* Config.__init__: data is a dict, or what yaml.load made of a text (a dict,
\* or None for an empty document).  heap holds the Config objects alive.
ConfigInit(data, parent, heap) ==
  LET own == IF data.t = "none" THEN EmptyDict ELSE data.v
  IN [parent |-> parent,
      config |-> IF parent # None THEN merge_dict(heap[parent].config, own)
                 ELSE own]

\* Config.as_dict
as_dict(c) == c.config

\* Config.__getitem__: dict.get, None for a missing key
ConfigGet(c, key) ==
  IF key \in DOMAIN c.config THEN c.config[key] ELSE NoneVal

\* Config.overlay: the new object
ConfigOverlay(self, another, heap) ==
  ConfigInit(MapVal(merge_dict(heap[self].config, another)), self, heap)

(***************************************************************************)
(* Specification SpecMerge: merge_dict applied to two documents.           *)
(***************************************************************************)
MergeIdle ==
  /\ mx = EmptyDict
  /\ my = EmptyDict
  /\ mresult = EmptyDict
  /\ mpc = "idle"

CfgIdle ==
  /\ configs = <<>>
  /\ cfgCall = [op |-> "none"]

RegIdle ==
  /\ converters = EmptyDict
  /\ regLog = <<>>
  /\ lookup = [op |-> "none"]

TmplIdle ==
  /\ tdirParent = <<>>
  /\ tmplFiles = <<>>
  /\ resolved = [op |-> "none"]

PageIdle ==
  /\ pfile = [op |-> "none"]
  /\ pclass = [op |-> "none"]

UrlIdle ==
  /\ upage = [op |-> "none"]
  /\ uurl = <<>>

ReadIdle ==
  /\ rlines = <<>>
  /\ rresult = [op |-> "none"]

BucketIdle ==
  /\ bucket = [op |-> "none"]
  /\ bpages = <<>>
  /\ bpc = "idle"

TreeIdle ==
  /\ fs = <<>>
  /\ rel = [op |-> "none"]

SiteIdle ==
  /\ site = <<>>
  /\ trav = [op |-> "none"]

BuildIdle ==
  /\ plan = <<>>
  /\ dest = <<>>
  /\ cursor = 0
  /\ bstat = "idle"

WatchIdle ==
  /\ wpc = "off"
  /\ events = <<>>
  /\ arrived = 0
  /\ inflight = 0
  /\ wlog = <<>>

IdleNotMerge == CfgIdle /\ RegIdle /\ TmplIdle /\ PageIdle /\ UrlIdle /\ ReadIdle /\ BucketIdle /\ TreeIdle /\ SiteIdle /\ BuildIdle /\ WatchIdle
IdleNotCfg == MergeIdle /\ RegIdle /\ TmplIdle /\ PageIdle /\ UrlIdle /\ ReadIdle /\ BucketIdle /\ TreeIdle /\ SiteIdle /\ BuildIdle /\ WatchIdle
IdleNotReg == MergeIdle /\ CfgIdle /\ TmplIdle /\ PageIdle /\ UrlIdle /\ ReadIdle /\ BucketIdle /\ TreeIdle /\ SiteIdle /\ BuildIdle /\ WatchIdle
IdleNotTmpl == MergeIdle /\ CfgIdle /\ RegIdle /\ PageIdle /\ UrlIdle /\ ReadIdle /\ BucketIdle /\ TreeIdle /\ SiteIdle /\ BuildIdle /\ WatchIdle
IdleNotPage == MergeIdle /\ CfgIdle /\ RegIdle /\ TmplIdle /\ UrlIdle /\ ReadIdle /\ BucketIdle /\ TreeIdle /\ SiteIdle /\ BuildIdle /\ WatchIdle
IdleNotUrl == MergeIdle /\ CfgIdle /\ RegIdle /\ TmplIdle /\ PageIdle /\ ReadIdle /\ BucketIdle /\ TreeIdle /\ SiteIdle /\ BuildIdle /\ WatchIdle
IdleNotRead == MergeIdle /\ CfgIdle /\ RegIdle /\ TmplIdle /\ PageIdle /\ UrlIdle /\ BucketIdle /\ TreeIdle /\ SiteIdle /\ BuildIdle /\ WatchIdle
IdleNotBucket == MergeIdle /\ CfgIdle /\ RegIdle /\ TmplIdle /\ PageIdle /\ UrlIdle /\ ReadIdle /\ TreeIdle /\ SiteIdle /\ BuildIdle /\ WatchIdle
IdleNotTree == MergeIdle /\ CfgIdle /\ RegIdle /\ TmplIdle /\ PageIdle /\ UrlIdle /\ ReadIdle /\ BucketIdle /\ SiteIdle /\ BuildIdle /\ WatchIdle
IdleNotSite == MergeIdle /\ CfgIdle /\ RegIdle /\ TmplIdle /\ PageIdle /\ UrlIdle /\ ReadIdle /\ BucketIdle /\ TreeIdle /\ BuildIdle /\ WatchIdle
IdleNotBuild == MergeIdle /\ CfgIdle /\ RegIdle /\ TmplIdle /\ PageIdle /\ UrlIdle /\ ReadIdle /\ BucketIdle /\ TreeIdle /\ SiteIdle /\ WatchIdle
IdleNotWatch == MergeIdle /\ CfgIdle /\ RegIdle /\ TmplIdle /\ PageIdle /\ UrlIdle /\ ReadIdle /\ BucketIdle /\ TreeIdle /\ SiteIdle /\ BuildIdle

InitMerge ==
  /\ mx \in Dicts2
  /\ my \in Dicts2
  /\ mresult = EmptyDict
  /\ mpc = "call"
  /\ IdleNotMerge

MergeCall ==
  /\ mpc = "call"
  /\ mresult' = merge_dict(mx, my)
  /\ mpc' = "done"
  /\ UNCHANGED <<mx, my, notMerge>>

NextMerge == MergeCall

SpecMerge == InitMerge /\ [][NextMerge]_vars

\* r is the right-biased recursive overlay of y on x, stated key by key.
RECURSIVE IsOverlay(_, _, _)
IsOverlay(r, x, y) ==
  /\ DOMAIN r = DOMAIN x \cup DOMAIN y
  /\ \A k \in DOMAIN r :
       IF k \notin DOMAIN y THEN r[k] = x[k]
       ELSE IF k \notin DOMAIN x THEN r[k] = y[k]
       ELSE IF IsDict(x[k]) /\ IsDict(y[k])
            THEN IsDict(r[k]) /\ IsOverlay(r[k].v, x[k].v, y[k].v)
       ELSE r[k] = y[k]

\* C1: merge_dict(x, y) has exactly the keys of x and of y; a key of x only
\* keeps x's value, a key of y only takes y's, a collision of two mappings is
\* their recursive merge, and every other collision takes y's value as it is
\* (a sequence is replaced, never concatenated).
C1_MergeIsRightBiasedOverlay ==
  mpc = "done" => IsOverlay(mresult, mx, my)

\* merge({a:{a:1}}, {a:{b:2}}) = {a:{a:1,b:2}}, and a collision of sequences.
C1_Witness ==
  /\ mpc = "done"
  /\ mx = [k \in {"a", "b"} |->
             IF k = "a" THEN MapVal([j \in {"a"} |-> Scalar(1)])
             ELSE SeqVal(<<1>>)]
  /\ my = [k \in {"a", "b"} |->
             IF k = "a" THEN MapVal([j \in {"b"} |-> Scalar(2)])
             ELSE SeqVal(<<1>>)]
  /\ mresult = [k \in {"a", "b"} |->
             IF k = "a"
             THEN MapVal([j \in {"a", "b"} |->
                            IF j = "a" THEN Scalar(1) ELSE Scalar(2)])
             ELSE SeqVal(<<1>>)]

(***************************************************************************)
(* Specification SpecConfig: Config objects are built from documents       *)
(* (Config(data, parent), as Config.from_path does for a directory) and    *)
(* overlaid.  Objects are never freed within a build.                      *)
(***************************************************************************)
MaxConfigs == 3

CfgLeaves == {Scalar(1), SeqVal(<<1>>)}

\* The documents given to Config: empty, or one path of one or two keys.
CfgDocs ==
  {EmptyDict}
    \cup {[k \in {a} |-> l] : a \in Keys, l \in CfgLeaves \cup {MapVal(EmptyDict)}}
    \cup {[k \in {a} |-> MapVal([j \in {b} |-> l])] :
            a \in Keys, b \in Keys, l \in CfgLeaves}

InitConfig ==
  /\ \E d \in CfgDocs : configs = <<ConfigInit(MapVal(d), None, <<>>)>>
  /\ cfgCall = [op |-> "init"]
  /\ IdleNotCfg

\* Config(data, parent): a document read for a directory
ConfigNew ==
  /\ Len(configs) < MaxConfigs
  /\ \E data \in {MapVal(d) : d \in CfgDocs} \cup {NoneVal},
        parent \in DOMAIN configs \cup {None} :
       /\ configs' = Append(configs, ConfigInit(data, parent, configs))
       /\ cfgCall' = [op |-> "init"]
  /\ UNCHANGED notCfg

\* c.overlay(another)
Overlay ==
  /\ Len(configs) < MaxConfigs
  /\ \E self \in DOMAIN configs, another \in CfgDocs :
       /\ configs' = Append(configs, ConfigOverlay(self, another, configs))
       /\ cfgCall' = [op |-> "overlay", self |-> self, another |-> another,
                      before |-> configs]
  /\ UNCHANGED notCfg

NextConfig == ConfigNew \/ Overlay

SpecConfig == InitConfig /\ [][NextConfig]_vars

\* The ancestors of Config object c in heap h, c excluded.
RECURSIVE Ancestors(_, _)
Ancestors(h, c) ==
  IF h[c].parent = None THEN {}
  ELSE {h[c].parent} \cup Ancestors(h, h[c].parent)

\* C2: c.overlay(extra) is a new Config whose parent is c and whose view is
\* the overlay of extra on c's view; c and every ancestor of c keep their
\* view; overlaying the empty document gives c's view.
C2_OverlayBuildsChild ==
  cfgCall.op = "overlay" =>
    LET c == cfgCall.self
        new == configs[Len(configs)]
    IN /\ Len(configs) = Len(cfgCall.before) + 1
       /\ new.parent = c
       /\ IsOverlay(as_dict(new), as_dict(cfgCall.before[c]), cfgCall.another)
       /\ \A a \in {c} \cup Ancestors(cfgCall.before, c) :
            configs[a] = cfgCall.before[a]
       /\ cfgCall.another = EmptyDict => as_dict(new) = as_dict(configs[c])

\* An overlay on a Config that has a parent, where a nested mapping of the
\* view and one of the overlay merge.
C2_Witness ==
  /\ cfgCall.op = "overlay"
  /\ configs[cfgCall.self].parent # None
  /\ \E k \in DOMAIN cfgCall.another :
       /\ k \in DOMAIN configs[cfgCall.self].config
       /\ IsDict(cfgCall.another[k])
       /\ IsDict(configs[cfgCall.self].config[k])
       /\ configs[Len(configs)].config[k] # cfgCall.another[k]
       /\ configs[Len(configs)].config[k] # configs[cfgCall.self].config[k]

(***************************************************************************)
(* plugin.py: the converter registry.                                      *)
(*                                                                         *)
(* A str is the sequence of its characters, so that str.lower() is a       *)
(* computation on it.  A converter is named by the plugin that defines it. *)
(***************************************************************************)
StrVal(s) == [t |-> "str", v |-> s]

\* The upper-case letters of the suffixes used, each with its lower-case one.
CasePairs == {<<"M", "m">>, <<"D", "d">>, <<"R", "r">>, <<"S", "s">>, <<"T", "t">>}

\* str.lower, on one character and on a str
LowerChar(c) ==
  IF \E p \in CasePairs : p[1] = c
    THEN (CHOOSE p \in CasePairs : p[1] = c)[2]
    ELSE c

Lower(s) == [i \in DOMAIN s |-> LowerChar(s[i])]

\* ConvertersMap.default_converter and the registered converters, applied
Convert(fn, content, context) ==
  IF fn = "default_converter" THEN content ELSE <<fn, content>>

\* A plausible bug: the key stored as given (as register.py stores it).
ConvertersSetitemAsGiven(map, suffix, converter) ==
  Put(map, suffix, converter)

\* ConvertersMap.__setitem__
ConvertersSetitem(map, suffix, converter) ==
  Put(map, Lower(suffix), converter)

\* ConvertersMap.__getitem__: suffix is a str or None
ConvertersGetitem(map, suffix) ==
  IF suffix.t = "str"
    THEN IF Lower(suffix.v) \in DOMAIN map THEN map[Lower(suffix.v)]
         ELSE "default_converter"
    ELSE "default_converter"

\* Plugins.get_converter
get_converter(map, suffix) == ConvertersGetitem(map, suffix)

(***************************************************************************)
(* Specification SpecReg: plugins register converters (Register.converter) *)
(* and pages look them up (Plugins.get_converter).                         *)
(***************************************************************************)
MaxRegs == 2

Suffixes ==
  { <<".", "m", "d">>, <<".", "M", "D">>, <<".", "M", "d">>,
    <<".", "r", "s", "t">>, <<".", "R", "S", "T">> }

ConverterFns == {"markdown", "rst"}

Contents == {<<"x">>, <<"x", "y">>}

InitReg ==
  /\ converters = EmptyDict
  /\ regLog = <<>>
  /\ lookup = [op |-> "none"]
  /\ IdleNotReg

\* Register.converter(suffix, converter)
RegisterConverter ==
  /\ Len(regLog) < MaxRegs
  /\ \E suffix \in Suffixes, fn \in ConverterFns :
       /\ converters' = ConvertersSetitem(converters, suffix, fn)
       /\ regLog' = Append(regLog, [suffix |-> suffix, fn |-> fn])
  /\ UNCHANGED <<lookup, notReg>>

\* Plugins.get_converter(suffix), and the converter applied to a content
GetConverter ==
  /\ \E suffix \in {StrVal(k) : k \in Suffixes} \cup {NoneVal}, c \in Contents :
       LET fn == get_converter(converters, suffix)
       IN lookup' = [op |-> "get", suffix |-> suffix, fn |-> fn,
                     content |-> c, out |-> Convert(fn, c, EmptyDict),
                     regs |-> Len(regLog)]
  /\ UNCHANGED <<converters, regLog, notReg>>

NextReg == RegisterConverter \/ GetConverter

SpecReg == InitReg /\ [][NextReg]_vars

\* Two strs are equal ignoring letter case.
EqIgnoreCase(s, t) ==
  /\ Len(s) = Len(t)
  /\ \A i \in DOMAIN s :
       \/ s[i] = t[i]
       \/ <<s[i], t[i]>> \in CasePairs
       \/ <<t[i], s[i]>> \in CasePairs

\* The registrations made before the last lookup whose key equals suffix
\* ignoring case.
RegsOf(suffix) ==
  {i \in 1..lookup.regs : EqIgnoreCase(regLog[i].suffix, suffix)}

\* C3: a lookup returns the converter most recently registered under a key
\* equal to the looked-up one ignoring case; a key never registered, or None,
\* gives the default converter, which returns the content unchanged.
C3_LookupCaseInsensitive ==
  lookup.op = "get" =>
    IF lookup.suffix.t = "str" /\ RegsOf(lookup.suffix.v) # {}
      THEN LET last == CHOOSE i \in RegsOf(lookup.suffix.v) :
                         \A j \in RegsOf(lookup.suffix.v) : j <= i
           IN lookup.fn = regLog[last].fn
      ELSE lookup.fn = "default_converter" /\ lookup.out = lookup.content

\* ".MD" looked up after ".md" and then ".Md" were registered with different
\* converters.
C3_Witness ==
  /\ lookup.op = "get"
  /\ lookup.suffix = StrVal(<<".", "M", "D">>)
  /\ lookup.regs = 2
  /\ regLog[1] = [suffix |-> <<".", "m", "d">>, fn |-> "rst"]
  /\ regLog[2] = [suffix |-> <<".", "M", "d">>, fn |-> "markdown"]
  /\ lookup.fn = "markdown"

(***************************************************************************)
(* template.py: the template resolver chain.                               *)
(*                                                                         *)
(* Directories are numbered from 1, the root; parent[d] is the directory   *)
(* above d, None for the root.  Directory d holds the Resolver of path d   *)
(* whose parent is the Resolver of parent[d] (Directory.__init__ hands     *)
(* parent.template to TemplateManager, which hands parent.loader to        *)
(* Resolver).  files[d] maps the names present in d/.template to their     *)
(* text.                                                                   *)
(***************************************************************************)

\* A plausible bug: the parent asked first, the own location as a fallback.
RECURSIVE get_source_parent_first(_, _, _, _)
get_source_parent_first(parent, files, d, template) ==
  LET up == IF parent[d] # None
              THEN get_source_parent_first(parent, files, parent[d], template)
              ELSE [raised |-> "TemplateNotFound", source |-> "", dir |-> None]
  IN IF up.raised = "" THEN up
     ELSE IF template \in DOMAIN files[d]
       THEN [raised |-> "", source |-> files[d][template], dir |-> d]
       ELSE up

\* Resolver.get_source of the Resolver of directory d: what is raised, the
\* source returned, and the directory of the file (the second component of
\* the result, the resolved path).
RECURSIVE get_source(_, _, _, _)
get_source(parent, files, d, template) ==
  IF template \notin DOMAIN files[d]
    THEN IF parent[d] # None
           THEN get_source(parent, files, parent[d], template)
           ELSE [raised |-> "TemplateNotFound", source |-> "", dir |-> None]
    ELSE [raised |-> "", source |-> files[d][template], dir |-> d]

(***************************************************************************)
(* Specification SpecTemplate: a tree of directories with template files,  *)
(* and templates resolved from them.                                       *)
(***************************************************************************)
MaxTemplateDirs == 3

TemplateNames == {"default.html", "index.html"}

TemplateTexts == {"s1", "s2"}

InitTemplate ==
  /\ tdirParent \in {p \in [1..MaxTemplateDirs -> 0..MaxTemplateDirs] :
                       /\ p[1] = None
                       /\ \A d \in 2..MaxTemplateDirs : p[d] >= 1 /\ p[d] < d}
  /\ tmplFiles \in [1..MaxTemplateDirs -> PartialFns(TemplateNames, TemplateTexts)]
  /\ resolved = [op |-> "none"]
  /\ IdleNotTmpl

\* Directory d's TemplateManager loads a template: Resolver.get_source
GetSource ==
  /\ \E d \in DOMAIN tdirParent, n \in TemplateNames :
       resolved' = [op |-> "get_source", dir |-> d, template |-> n,
                    result |-> get_source(tdirParent, tmplFiles, d, n)]
  /\ UNCHANGED <<tdirParent, tmplFiles, notTmpl>>

NextTemplate == GetSource

SpecTemplate == InitTemplate /\ [][NextTemplate]_vars

\* The chain d, parent(d), ..., root.
RECURSIVE Chain(_, _)
Chain(parent, d) ==
  IF parent[d] = None THEN <<d>> ELSE <<d>> \o Chain(parent, parent[d])

\* C4: resolving n from directory d returns the text found in the nearest
\* directory of the chain d, parent(d), ..., root that holds n, and raises
\* TemplateNotFound exactly when no directory of the chain holds n.
C4_NearestTemplateWins ==
  resolved.op = "get_source" =>
    LET chain == Chain(tdirParent, resolved.dir)
        n == resolved.template
        holders == {i \in DOMAIN chain : n \in DOMAIN tmplFiles[chain[i]]}
    IN IF holders = {}
         THEN resolved.result.raised = "TemplateNotFound"
         ELSE LET first == CHOOSE i \in holders : \A j \in holders : i <= j
              IN /\ resolved.result.raised = ""
                 /\ resolved.result.dir = chain[first]
                 /\ resolved.result.source = tmplFiles[chain[first]][n]

\* A template that the directory and its grandparent both hold, with
\* different texts, and that the directory between them does not hold.
C4_Witness ==
  /\ resolved.op = "get_source"
  /\ resolved.dir = 3
  /\ tdirParent[3] = 2
  /\ resolved.template \in DOMAIN tmplFiles[3]
  /\ resolved.template \notin DOMAIN tmplFiles[2]
  /\ resolved.template \in DOMAIN tmplFiles[1]
  /\ tmplFiles[1][resolved.template] # tmplFiles[3][resolved.template]
  /\ resolved.result.source = tmplFiles[3][resolved.template]

\* A template found only two levels up.
C4_WitnessFallback ==
  /\ resolved.op = "get_source"
  /\ resolved.dir = 3
  /\ tdirParent[3] = 2
  /\ resolved.result.raised = ""
  /\ resolved.result.dir = 1

(***************************************************************************)
(* nodes.py: the classification of a file, Page.__new__.                   *)
(*                                                                         *)
(* A file name is the sequence of its parts between dots ("index.md" is    *)
(* <<"index", "md">>).  A file is: its name; whether open() succeeds;      *)
(* whether decoding its first characters succeeds; its text, a sequence of *)
(* characters; and whether its front matter parses.                        *)
(***************************************************************************)

\* pathlib's PurePath.stem: the name without its last suffix.
Stem(name) == IF Len(name) > 1 THEN SubSeq(name, 1, Len(name) - 1) ELSE name

\* pathlib's PurePath.suffix, without its dot; <<>> when there is none.
Suffix(name) == IF Len(name) > 1 THEN <<name[Len(name)]>> ELSE <<>>

\* The front-matter marker '---\n'.
Marker == <<"-", "-", "-", "\n">>

\* file_.read(n) of a file just opened
Read(text, n) == SubSeq(text, 1, IF Len(text) < n THEN Len(text) ELSE n)

\* is_renderable(file_), file_ an open file
is_renderable(f) ==
  IF f.decodes THEN Read(f.text, 4) = Marker ELSE FALSE

\* Page.__new__ called on Page itself: the class chosen and the exception that
\* leaves the call.  source.open() is evaluated before is_renderable is entered.
PageNew(f) ==
  IF ~f.opens THEN [cls |-> "", raised |-> "PermissionError"]
  ELSE IF is_renderable(f)
    THEN LET cls == IF Stem(f.name) = <<"index">> THEN "IndexPage"
                    ELSE "ArticlePage"
         \* ArticlePage.__init__ reads the file: read_renderable_file
         IN [cls |-> cls, raised |-> IF f.parses THEN "" ELSE "YAMLError"]
    ELSE [cls |-> "AssetPage", raised |-> ""]

(***************************************************************************)
(* Specification SpecPage: Page(source, parent) on one file.               *)
(***************************************************************************)
MaxHeadLen == 5

FileChars == {"-", "\n", "x"}

FileNames ==
  { <<"index", "md">>, <<"index">>, <<"index", "tar", "gz">>,
    <<"a", "md">>, <<"Index", "md">> }

Texts == UNION {[1..n -> FileChars] : n \in 0..MaxHeadLen}

InitPage ==
  /\ pfile \in [op : {"file"}, name : FileNames, opens : BOOLEAN,
                decodes : BOOLEAN, parses : BOOLEAN, text : Texts]
  /\ pclass = [op |-> "none"]
  /\ IdleNotPage

\* Page(source, parent)
Classify ==
  /\ pclass.op = "none"
  /\ pclass' = [op |-> "new", result |-> PageNew(pfile)]
  /\ UNCHANGED <<pfile, notPage>>

NextPage == Classify

SpecPage == InitPage /\ [][NextPage]_vars

\* The classification the specification gives a file: by its first four
\* characters and its stem; a probe that fails makes it an asset.
ExpectedClass(f) ==
  IF f.opens /\ f.decodes
       /\ Len(f.text) >= 4 /\ \A i \in 1..4 : f.text[i] = Marker[i]
    THEN IF Stem(f.name) = <<"index">> THEN "IndexPage" ELSE "ArticlePage"
    ELSE "AssetPage"

\* C5: every file gets the classification of its first four characters and
\* its stem, and an unreadable or binary file becomes an AssetPage with no
\* error propagated.
C5_ClassificationTotal ==
  pclass.op = "new" =>
    /\ pclass.result.cls = ExpectedClass(pfile)
    /\ (~pfile.opens \/ ~pfile.decodes) => pclass.result.raised = ""

\* What the code does hold to: a file that can be opened is classified as
\* stated, and a failing read of its first characters is not propagated.
C5_ClassificationOfOpenedFiles ==
  (pclass.op = "new" /\ pfile.opens) =>
    /\ pclass.result.cls = ExpectedClass(pfile)
    /\ ~pfile.decodes => pclass.result.raised = ""

(***************************************************************************)
(* nodes.py: paths and URLs.                                               *)
(*                                                                         *)
(* A path is the sequence of its names, relative to the root of the tree   *)
(* (the root itself is <<>>, pathlib's '.'); a name is the sequence of its *)
(* parts between dots.  A URL or posix string is the sequence of its       *)
(* tokens: the parts, and the separators "/" and ".".                      *)
(***************************************************************************)
BoolVal(b) == [t |-> "bool", v |-> b]
IntVal(n) == [t |-> "int", v |-> n]

\* A name as a string: its parts joined with dots.
RECURSIVE NameStr(_)
NameStr(name) ==
  IF Len(name) = 1 THEN <<name[1]>>
  ELSE <<name[1], ".">> \o NameStr(Tail(name))

\* PurePath.as_posix() of a relative path
RECURSIVE as_posix(_)
as_posix(path) ==
  IF path = <<>> THEN <<".">>
  ELSE IF Len(path) = 1 THEN NameStr(path[1])
  ELSE NameStr(path[1]) \o <<"/">> \o as_posix(Tail(path))

\* ('/' / path).as_posix()
RootedPosix(path) ==
  IF path = <<>> THEN <<"/">> ELSE <<"/">> \o as_posix(path)

\* PurePath.parent
PathParent(path) ==
  IF path = <<>> THEN <<>> ELSE SubSeq(path, 1, Len(path) - 1)

\* Page.url
page_url(path) == RootedPosix(path)

\* ArticlePage.__init__: the output path of the source file name in the
\* directory of path basepath
ArticlePath(basepath, name) ==
  Append(basepath, Append(Stem(name), "html"))

\* AutoIndexPage.__init__: the output path, fname being the rendered target
\* (a relative path of one name or more)
AutoIndexPath(dirpath, fname) == dirpath \o fname

\* AutoIndexPage.__init__: the page's own configuration
AutoIndexConfig(dirConfig) ==
  LET page_config == ConfigGet(dirConfig, "page")
  IN ConfigInit(IF IsDict(page_config) THEN page_config ELSE MapVal(EmptyDict),
                None, <<>>)

\* A plausible bug: the fallback taken for every falsy value (`if not
\* directory_slash`), so that the page's own false is overridden.
directory_slash_falsy(config, parentConfig) ==
  LET own == ConfigGet(config, "directory_slash")
  IN IF own = NoneVal \/ own = BoolVal(FALSE) \/ own = IntVal(0)
       THEN ConfigGet(parentConfig, "directory_slash")
       ELSE own

\* IndexPageMixIn.url, its first three lines: the directory_slash in force
directory_slash(config, parentConfig) ==
  LET own == ConfigGet(config, "directory_slash")
  IN IF own = NoneVal THEN ConfigGet(parentConfig, "directory_slash") ELSE own

\* A plausible bug: the test for the root left out.
index_url_no_root_test(path, config, parentConfig) ==
  LET ds == directory_slash(config, parentConfig)
  IN IF ds = StrVal("index.html") THEN <<"/">> \o as_posix(path)
     ELSE IF ds # BoolVal(FALSE)
       THEN RootedPosix(PathParent(path)) \o <<"/">>
       ELSE RootedPosix(PathParent(path))

\* IndexPageMixIn.url
index_url(path, config, parentConfig) ==
  LET ds == directory_slash(config, parentConfig)
      dir == RootedPosix(PathParent(path))
  IN IF ds = StrVal("index.html") THEN <<"/">> \o as_posix(path)
     ELSE IF ds # BoolVal(FALSE) /\ dir # <<"/">> THEN dir \o <<"/">>
     ELSE dir

(***************************************************************************)
(* Specification SpecUrl: an IndexPage or an AutoIndexPage is built in a   *)
(* directory and asked for its URL.                                        *)
(***************************************************************************)
MaxDirDepth == 2

DirNames == {<<"blog">>, <<"sub">>}

DirPaths == UNION {[1..n -> DirNames] : n \in 0..MaxDirDepth}

\* The values YAML gives directory_slash; None stands for a null value.
SlashValues ==
  { StrVal("index.html"), StrVal("other"), BoolVal(FALSE), BoolVal(TRUE),
    IntVal(0), NoneVal }

\* A document that sets directory_slash, or leaves it out.
SlashDocs ==
  {EmptyDict} \cup {[k \in {"directory_slash"} |-> v] : v \in SlashValues}

\* The directory's effective configuration: directory_slash and page.
DirConfigDocs ==
  SlashDocs
    \cup {Put(d, "page", MapVal(pg)) : d \in SlashDocs, pg \in SlashDocs}
    \cup {Put(d, "page", StrVal("other")) : d \in SlashDocs}

\* The rendered targets of an auto-index bucket: index.html, page1.html,
\* page/1/index.html.
TargetNames ==
  { <<<<"index", "html">>>>, <<<<"page1", "html">>>>,
    <<<<"page">>, <<"1">>, <<"index", "html">>>> }

InitUrl ==
  /\ \E dirpath \in DirPaths, dc \in DirConfigDocs :
       LET dirConfig == ConfigInit(MapVal(dc), None, <<>>)
       IN \/ \E fm \in SlashDocs :
               upage = [op |-> "page", cls |-> "IndexPage", dirpath |-> dirpath,
                        path |-> ArticlePath(dirpath, <<"index", "md">>),
                        config |-> ConfigInit(MapVal(fm), None, <<>>),
                        parentConfig |-> dirConfig]
          \/ \E fname \in TargetNames :
               upage = [op |-> "page", cls |-> "AutoIndexPage", dirpath |-> dirpath,
                        path |-> AutoIndexPath(dirpath, fname),
                        config |-> AutoIndexConfig(dirConfig),
                        parentConfig |-> dirConfig]
  /\ uurl = <<>>
  /\ IdleNotUrl

\* page.url()
IndexUrl ==
  /\ uurl = <<>>
  /\ uurl' = index_url(upage.path, upage.config, upage.parentConfig)
  /\ UNCHANGED <<upage, notUrl>>

NextUrl == IndexUrl

SpecUrl == InitUrl /\ [][NextUrl]_vars

\* The directory_slash value in force, as the claims state it: the page's
\* own, and the directory's only when the page's own is absent.
SlashInForce ==
  IF "directory_slash" \in DOMAIN upage.config.config
       /\ upage.config.config["directory_slash"] # NoneVal
    THEN upage.config.config["directory_slash"]
    ELSE IF "directory_slash" \in DOMAIN upage.parentConfig.config
      THEN upage.parentConfig.config["directory_slash"]
      ELSE NoneVal

\* '/d' for the path d, and the file name of the page's path
SlashD(d) == IF d = <<>> THEN <<>> ELSE <<"/">> \o as_posix(d)
FileNameStr == NameStr(upage.path[Len(upage.path)])

\* The URL the claims give a page whose directory is d.
ClaimedUrl(d) ==
  IF SlashInForce = StrVal("index.html") THEN SlashD(d) \o <<"/">> \o FileNameStr
  ELSE IF SlashInForce = BoolVal(FALSE) THEN SlashD(d)
  ELSE SlashD(d) \o <<"/">>

\* C6 as stated: for an index-capable page of the non-root directory d, the
\* URL is /d/<file name> for "index.html", /d for false and /d/ otherwise.
C6_UrlOfDirectory ==
  (uurl # <<>> /\ upage.dirpath # <<>>) => uurl = ClaimedUrl(upage.dirpath)

\* C6 amended: the same, with d the directory part of the page's output
\* path, when that is not the root.
C6_UrlOfPathParent ==
  (uurl # <<>> /\ PathParent(upage.path) # <<>>) =>
    uurl = ClaimedUrl(PathParent(upage.path))

\* The page's own false, with another value in the directory's config.
C6_Witness ==
  /\ uurl # <<>>
  /\ upage.dirpath = <<<<"blog">>>>
  /\ ConfigGet(upage.config, "directory_slash") = BoolVal(FALSE)
  /\ ConfigGet(upage.parentConfig, "directory_slash") = StrVal("index.html")
  /\ uurl = <<"/", "blog">>

\* C7 as stated: the index page of the root directory has the URL '/',
\* whatever directory_slash is.
C7_RootUrlAlwaysSlash ==
  (uurl # <<>> /\ upage.dirpath = <<>>) => uurl = <<"/">>

\* C7 amended: an index page whose output path lies directly in the root has
\* the URL '/' for every directory_slash but "index.html", and '/' followed
\* by its file name for "index.html".
C7_RootUrl ==
  (uurl # <<>> /\ PathParent(upage.path) = <<>>) =>
    IF SlashInForce = StrVal("index.html")
      THEN uurl = <<"/">> \o FileNameStr
      ELSE uurl = <<"/">>

\* The root's IndexPage with directory_slash true in its front matter.
C7_Witness ==
  /\ uurl = <<"/">>
  /\ upage.cls = "IndexPage"
  /\ upage.dirpath = <<>>
  /\ ConfigGet(upage.config, "directory_slash") = BoolVal(TRUE)

(***************************************************************************)
(* nodes.py: read_renderable_file.                                         *)
(*                                                                         *)
(* Iterating a text file gives its lines, each with its line end; only the *)
(* last line of a file may lack one.                                       *)
(***************************************************************************)

\* The marker line '---\n'.
MarkerLine == "---\n"

\* A plausible bug: every marker line switches (and is dropped), the test
\* `target is not contents` left out.
RECURSIVE ReadLoopEveryMarker(_, _, _, _, _)
ReadLoopEveryMarker(lines, i, target, headers, contents) ==
  IF i > Len(lines) THEN [headers |-> headers, contents |-> contents]
  ELSE IF i = 1 THEN ReadLoopEveryMarker(lines, i + 1, target, headers, contents)
  ELSE IF lines[i] = MarkerLine
    THEN ReadLoopEveryMarker(lines, i + 1, "contents", headers, contents)
  ELSE IF target = "headers"
    THEN ReadLoopEveryMarker(lines, i + 1, target, Append(headers, lines[i]), contents)
    ELSE ReadLoopEveryMarker(lines, i + 1, target, headers, Append(contents, lines[i]))

\* The loop of read_renderable_file from line i on (lines are numbered from
\* 1 here, from 0 in the code); target names the list appended to.
RECURSIVE ReadLoop(_, _, _, _, _)
ReadLoop(lines, i, target, headers, contents) ==
  IF i > Len(lines) THEN [headers |-> headers, contents |-> contents]
  ELSE IF i = 1 THEN ReadLoop(lines, i + 1, target, headers, contents)
  ELSE IF lines[i] = MarkerLine /\ target # "contents"
    THEN ReadLoop(lines, i + 1, "contents", headers, contents)
  ELSE IF target = "headers"
    THEN ReadLoop(lines, i + 1, target, Append(headers, lines[i]), contents)
    ELSE ReadLoop(lines, i + 1, target, headers, Append(contents, lines[i]))

\* read_renderable_file: the lines joined into the front matter text and
\* the lines joined into the content
read_renderable_file(lines) ==
  ReadLoop(lines, 1, "headers", <<>>, <<>>)

(***************************************************************************)
(* Specification SpecRead: read_renderable_file on one file.               *)
(***************************************************************************)
MaxLines == 5

FullLines == {"---\n", "a\n", " ---\n", "--- \n"}

\* A last line without its line end.
OpenLines == {"---", "a"}

RenderableFiles ==
  UNION {[1..n -> FullLines] : n \in 0..MaxLines}
    \cup UNION {{Append(f, l) : f \in [1..n -> FullLines], l \in OpenLines} :
                  n \in 0..(MaxLines - 1)}

InitRead ==
  /\ rlines \in RenderableFiles
  /\ rresult = [op |-> "none"]
  /\ IdleNotRead

ReadRenderableFile ==
  /\ rresult.op = "none"
  /\ rresult' = [op |-> "read", result |-> read_renderable_file(rlines)]
  /\ UNCHANGED <<rlines, notRead>>

NextRead == ReadRenderableFile

SpecRead == InitRead /\ [][NextRead]_vars

\* The lines after line 0 that equal the marker line.
LaterMarkers == {i \in 2..Len(rlines) : rlines[i] = "---\n"}

\* C8: line 0 is discarded; the lines up to the first later marker line are
\* the front matter; that marker line is dropped; all lines after it, marker
\* lines too, are the body in order; with no later marker line everything
\* after line 0 is front matter and the body is empty.
C8_FrontMatterSplit ==
  rresult.op = "read" =>
    IF LaterMarkers = {}
      THEN /\ rresult.result.headers = SubSeq(rlines, 2, Len(rlines))
           /\ rresult.result.contents = <<>>
      ELSE LET m == CHOOSE i \in LaterMarkers : \A j \in LaterMarkers : i <= j
           IN /\ rresult.result.headers = SubSeq(rlines, 2, m - 1)
              /\ rresult.result.contents = SubSeq(rlines, m + 1, Len(rlines))

\* A file whose body holds a marker line.
C8_Witness ==
  /\ rresult.op = "read"
  /\ rlines = <<"---\n", "a\n", "---\n", "a\n", "---\n">>
  /\ rresult.result.headers = <<"a\n">>
  /\ rresult.result.contents = <<"a\n", "---\n">>

(***************************************************************************)
(* nodes.py: the auto-index pages of one bucket specification.             *)
(***************************************************************************)

\* isinstance(v, int): bool is a subclass of int in Python.
IsInt(v) == v.t \in {"int", "bool"}

\* The integer an int or a bool counts as.
IntOf(v) == IF v.t = "bool" THEN (IF v.v THEN 1 ELSE 0) ELSE v.v

\* dict.get(key, default)
DictGet(d, key, default) == IF key \in DOMAIN d THEN d[key] ELSE default

\* auto_index_pages: the page size of a bucket specification
Pagenate(conf) ==
  LET pagenate == DictGet(conf, "pagenate", IntVal(1))
  IN IF ~IsInt(pagenate) \/ IntOf(pagenate) <= 0 THEN 1 ELSE IntOf(pagenate)

\* math.ceil(n / s), for s > 0
Ceil(n, s) == IF n % s = 0 THEN n \div s ELSE (n \div s) + 1

\* children[i:j], a slice with Python's indexes (from 0, j excluded)
Slice(children, i, j) ==
  SubSeq(children, i + 1, IF j > Len(children) THEN Len(children) ELSE j)

\* jinja2.Template(file_name).render({'pagenate': {'num': .., 'max': ..}}):
\* a target is a path whose parts may be the expressions for the two numbers.
RenderPart(part, page_num, page_max) ==
  IF part = "{{ pagenate.num }}" THEN ToString(page_num)
  ELSE IF part = "{{ pagenate.max }}" THEN ToString(page_max)
  ELSE part

RenderTarget(file_name, page_num, page_max) ==
  [i \in DOMAIN file_name |->
     [j \in DOMAIN file_name[i] |-> RenderPart(file_name[i][j], page_num, page_max)]]

\* AutoIndexPage.__init__; dir is the parent Directory (its path and config)
AutoIndexPageInit(sources, dir, page_num, page_max, file_name, layout) ==
  [cls |-> "AutoIndexPage",
   parent |-> dir.id,
   path |-> AutoIndexPath(dir.path, RenderTarget(file_name, page_num, page_max)),
   config |-> AutoIndexConfig(dir.config),
   source |-> <<>>,
   page_num |-> page_num,
   page_max |-> page_max,
   sources |-> sources,
   layout |-> layout]

\* A plausible bug: the slices overlap by one (children[i:i+pagenate+1]).
RECURSIVE BucketLoopOverlap(_, _, _, _)
BucketLoopOverlap(children, dir, conf, i) ==
  IF i >= Len(children) THEN <<>>
  ELSE <<AutoIndexPageInit(
           Slice(children, i, i + Pagenate(conf) + 1), dir,
           i \div Pagenate(conf), Ceil(Len(children), Pagenate(conf)),
           DictGet(conf, "target", StrVal(<<<<"index", "html">>>>)).v,
           DictGet(conf, "layout", StrVal("index.html")))>>
       \o BucketLoopOverlap(children, dir, conf, i + Pagenate(conf))

\* auto_index_pages: the loop `for i in range(0, len(children), pagenate)`
\* of one bucket specification, from i on
RECURSIVE BucketLoop(_, _, _, _)
BucketLoop(children, dir, conf, i) ==
  IF i >= Len(children) THEN <<>>
  ELSE <<AutoIndexPageInit(
           Slice(children, i, i + Pagenate(conf)), dir,
           i \div Pagenate(conf), Ceil(Len(children), Pagenate(conf)),
           DictGet(conf, "target", StrVal(<<<<"index", "html">>>>)).v,
           DictGet(conf, "layout", StrVal("index.html")))>>
       \o BucketLoop(children, dir, conf, i + Pagenate(conf))

\* The pages of one bucket specification
BucketPages(children, dir, conf) == BucketLoop(children, dir, conf, 0)

(***************************************************************************)
(* Specification SpecBucket: one bucket specification of a directory, with *)
(* the children its pattern matched.                                       *)
(***************************************************************************)
MaxChildren == 7

MaxPagenate == 4

\* The values YAML gives pagenate.
PagenateValues ==
  {IntVal(n) : n \in -1..MaxPagenate}
    \cup {BoolVal(TRUE), BoolVal(FALSE), StrVal("3"), NoneVal}

\* The bucket specifications: pagenate and target set or left out.
BucketConfs ==
  LET base == {EmptyDict,
               [k \in {"target"} |->
                  StrVal(<<<<"page", "{{ pagenate.num }}", "html">>>>)]}
  IN base \cup {Put(d, "pagenate", v) : d \in base, v \in PagenateValues}

InitBucket ==
  /\ \E n \in 0..MaxChildren, conf \in BucketConfs :
       bucket = [op |-> "bucket", children |-> [i \in 1..n |-> i], conf |-> conf,
                 dir |-> [id |-> 1, path |-> <<<<"blog">>>>,
                          config |-> ConfigInit(MapVal(EmptyDict), None, <<>>)]]
  /\ bpages = <<>>
  /\ bpc = "call"
  /\ IdleNotBucket

\* The pages of the bucket are synthesized
SynthesizePages ==
  /\ bpc = "call"
  /\ bpages' = BucketPages(bucket.children, bucket.dir, bucket.conf)
  /\ bpc' = "done"
  /\ UNCHANGED <<bucket, notBucket>>

NextBucket == SynthesizePages

SpecBucket == InitBucket /\ [][NextBucket]_vars

\* The effective page size, as the claim states it.
EffectiveSize ==
  IF "pagenate" \in DOMAIN bucket.conf
       /\ bucket.conf["pagenate"].t = "int" /\ bucket.conf["pagenate"].v > 0
    THEN bucket.conf["pagenate"].v
    ELSE 1

\* The least m with m * s >= n: ceil(n / s).
CeilOf(n, s) == CHOOSE m \in 0..n : m * s >= n /\ \A j \in 0..n : j * s >= n => m <= j

\* The members of the pages, concatenated in page order.
RECURSIVE Members(_)
Members(pages) ==
  IF pages = <<>> THEN <<>> ELSE pages[1].sources \o Members(Tail(pages))

\* C10: n children and page size s give ceil(n/s) pages; page k has number
\* k, count ceil(n/s) and the members c[k*s .. min((k+1)*s, n)-1] in order;
\* together the pages hold every child once, in order.
C10_Pagination ==
  bpc = "done" =>
    LET n == Len(bucket.children)
        s == EffectiveSize
        c == bucket.children
    IN /\ Len(bpages) = CeilOf(n, s)
       /\ \A k \in 0..(Len(bpages) - 1) :
            LET hi == IF (k + 1) * s < n THEN (k + 1) * s ELSE n
            IN /\ bpages[k + 1].page_num = k
               /\ bpages[k + 1].page_max = CeilOf(n, s)
               /\ bpages[k + 1].sources = [i \in 1..(hi - k * s) |-> c[k * s + i]]
       /\ Members(bpages) = c

\* Seven children in pages of three: members [3,3,1], numbers [0,1,2], count 3.
C10_Witness ==
  /\ bpc = "done"
  /\ Len(bucket.children) = 7
  /\ DictGet(bucket.conf, "pagenate", NoneVal) = IntVal(3)
  /\ Len(bpages) = 3
  /\ <<Len(bpages[1].sources), Len(bpages[2].sources), Len(bpages[3].sources)>>
       = <<3, 3, 1>>
  /\ <<bpages[1].page_num, bpages[2].page_num, bpages[3].page_num>> = <<0, 1, 2>>
  /\ \A k \in 1..3 : bpages[k].page_max = 3

(***************************************************************************)
(* nodes.py: the page tree.                                                *)
(*                                                                         *)
(* The source tree is the sequence fs of its directories, the root first.  *)
(* A directory is: its parent (None for the root); its name; the document  *)
(* of its .bg.yml (None when there is no such file); and its entries in    *)
(* the order the operating system lists them (iterdir and glob both list   *)
(* a directory with scandir).  An entry is a file (its name, its first     *)
(* characters, its front matter) or a directory (its number in fs).        *)
(*                                                                         *)
(* Directory and Page objects are built on demand and never kept: a        *)
(* Directory is known by its number, a Page by the record of its fields.   *)
(***************************************************************************)

\* `if page:` of an Optional[Page] that is None
NoPage == [cls |-> "None"]

\* The config of a page that has none (AssetPage).
NoConfig == [parent |-> None, config |-> EmptyDict]

\* A Directory object
DirNode(d) == [cls |-> "Directory", id |-> d]

\* isinstance(node, Page), isinstance(node, IndexPageMixIn)
IsPage(node) == node.cls \notin {"Directory", "None"}
IsIndexCapable(node) == node.cls \in {"IndexPage", "AutoIndexPage"}

\* name.startswith('.'): the part before the first dot is empty
IsHiddenName(name) == name[1] = ""

\* Python's truth value of a configuration value (a str here is a layout
\* name, written as one string)
Truthy(v) ==
  CASE v.t = "none" -> FALSE
    [] v.t = "bool" -> v.v
    [] v.t = "int" -> v.v # 0
    [] v.t = "str" -> v.v # ""
    [] v.t = "seq" -> v.v # <<>>
    [] v.t = "map" -> DOMAIN v.v # {}
    [] OTHER -> TRUE

\* source.relative_to(root_path()) of directory d
RECURSIVE DirPath(_, _)
DirPath(tree, d) ==
  IF tree[d].parent = None THEN <<>>
  ELSE Append(DirPath(tree, tree[d].parent), tree[d].name)

\* Directory.__init__: self.config, Config.from_path(source, parent.config)
RECURSIVE DirectoryConfig(_, _)
DirectoryConfig(tree, d) ==
  IF tree[d].parent = None THEN ConfigInit(tree[d].doc, None, <<>>)
  ELSE ConfigInit(tree[d].doc, tree[d].parent,
                  tree[d].parent :> DirectoryConfig(tree, tree[d].parent))

\* The Directory object of d, as AutoIndexPage.__init__ reads it
DirRecord(tree, d) ==
  [id |-> d, path |-> DirPath(tree, d), config |-> DirectoryConfig(tree, d)]

\* The file of an entry, as Page.__new__ reads it; the files of the tree can
\* be opened and decoded, and their front matter parses.
FileOf(e) ==
  [name |-> e.name, opens |-> TRUE, decodes |-> TRUE, parses |-> TRUE,
   text |-> e.head]

\* Page(source, parent) for the file entry e of directory d: Page.__new__,
\* then AssetPage.__init__ or ArticlePage.__init__
FilePage(tree, d, e) ==
  LET cls == PageNew(FileOf(e)).cls
  IN [cls |-> cls,
      parent |-> d,
      path |-> IF cls = "AssetPage" THEN Append(DirPath(tree, d), e.name)
               ELSE ArticlePath(DirPath(tree, d), e.name),
      config |-> IF cls = "AssetPage" THEN NoConfig
                 ELSE ConfigInit(MapVal(e.fm), None, <<>>),
      source |-> e.name,
      page_num |-> 0,
      page_max |-> 0,
      sources |-> <<>>,
      layout |-> NoneVal]

\* Directory.__iter__, one entry: Page(p, self) or Directory(p, self, plugins)
EntryNode(tree, d, e) ==
  IF e.kind = "file" THEN FilePage(tree, d, e) ELSE DirNode(e.dir)

\* fnmatch of a name against a pattern with at most one '*', which stands at
\* the start ('*', '*.md') or at the end ('index.*')
MatchName(name, pattern) ==
  IF pattern = <<"*">> THEN TRUE
  ELSE IF pattern[1] = "*"
    THEN /\ Len(name) >= Len(pattern)
         /\ SubSeq(name, Len(name) - Len(pattern) + 2, Len(name)) = Tail(pattern)
  ELSE IF pattern[Len(pattern)] = "*"
    THEN /\ Len(name) >= Len(pattern)
         /\ SubSeq(name, 1, Len(pattern) - 1) = SubSeq(pattern, 1, Len(pattern) - 1)
  ELSE name = pattern

\* self.source.glob(pattern): the entries of d that match, as listed
Glob(tree, d, pattern) ==
  LET Test(e) == MatchName(e.name, pattern)
  IN SelectSeq(tree[d].entries, Test)

\* The names of the tree in the order of their strings.
NameOrder ==
  << <<"", "git">>, <<"", "hidden">>, <<"a", "html">>, <<"a", "md">>,
     <<"b", "txt">>, <<"blog">>, <<"index", "html">>, <<"index", "md">>,
     <<"sub">> >>

Rank(name) == CHOOSE i \in DOMAIN NameOrder : NameOrder[i] = name

\* sorted(paths) of entries of one directory
RECURSIVE Sorted(_)
Sorted(entries) ==
  IF entries = <<>> THEN <<>>
  ELSE LET i == CHOOSE j \in DOMAIN entries :
                  \A k \in DOMAIN entries : Rank(entries[j].name) <= Rank(entries[k].name)
           Others(k) == IF k < i THEN entries[k] ELSE entries[k + 1]
       IN <<entries[i]>> \o Sorted([k \in 1..(Len(entries) - 1) |-> Others(k)])

\* Directory._user_index_page
UserIndexPage(tree, d) ==
  LET Wins(e) == Suffix(e.name) = <<"html">> \/ is_renderable(FileOf(e))
      hits == SelectSeq(Sorted(Glob(tree, d, <<"index", "*">>)), Wins)
  IN IF hits = <<>> THEN NoPage ELSE FilePage(tree, d, hits[1])

\* Directory.get_children(pattern), for a pattern of direct children
GetChildren(tree, d, pattern) ==
  LET Keep(e) == ~IsHiddenName(e.name) /\ Stem(e.name) # <<"index">>
      kept == SelectSeq(Glob(tree, d, pattern), Keep)
  IN [i \in DOMAIN kept |-> EntryNode(tree, d, kept[i])]

\* Directory.auto_index_pages: the bucket specifications of config['autoindex']
AutoIndexConfs(autoindex) ==
  LET confs == IF autoindex.t = "str"
                 THEN <<MapVal([k \in {"layout"} |-> autoindex])>>
               ELSE IF autoindex.t = "map" THEN <<autoindex>>
               ELSE IF autoindex.t = "seq" THEN autoindex.v
               ELSE <<>>
  IN [i \in DOMAIN confs |->
        IF confs[i].t = "str" THEN [k \in {"layout"} |-> confs[i]]
        ELSE confs[i].v]

\* Directory.auto_index_pages: the pages of the bucket specifications from
\* the i-th on
RECURSIVE AutoIndexLoop(_, _, _, _)
AutoIndexLoop(tree, d, confs, i) ==
  IF i > Len(confs) THEN <<>>
  ELSE BucketPages(
         GetChildren(tree, d, DictGet(confs[i], "source", StrVal(<<"*">>)).v),
         DirRecord(tree, d), confs[i])
       \o AutoIndexLoop(tree, d, confs, i + 1)

\* A plausible bug: the user-authored index is not looked for (`if not
\* self.config['autoindex']: return`).
auto_index_pages_whatever_index(tree, d) ==
  LET autoindex == ConfigGet(DirectoryConfig(tree, d), "autoindex")
  IN IF ~Truthy(autoindex) THEN <<>>
     ELSE AutoIndexLoop(tree, d, AutoIndexConfs(autoindex), 1)

\* Directory.auto_index_pages
auto_index_pages(tree, d) ==
  LET autoindex == ConfigGet(DirectoryConfig(tree, d), "autoindex")
  IN IF ~Truthy(autoindex) \/ UserIndexPage(tree, d) # NoPage THEN <<>>
     ELSE AutoIndexLoop(tree, d, AutoIndexConfs(autoindex), 1)

\* A plausible bug: the user-authored index is not looked for, and the
\* auto-index pages alone decide.
index_page_auto_only(tree, d) ==
  IF Truthy(ConfigGet(DirectoryConfig(tree, d), "autoindex"))
       /\ auto_index_pages(tree, d) # <<>>
    THEN auto_index_pages(tree, d)[1]
  ELSE NoPage

\* Directory.index_page
index_page(tree, d) ==
  LET user_index == UserIndexPage(tree, d)
  IN IF user_index # NoPage THEN user_index
     ELSE IF Truthy(ConfigGet(DirectoryConfig(tree, d), "autoindex"))
            /\ auto_index_pages(tree, d) # <<>>
       THEN auto_index_pages(tree, d)[1]
     ELSE NoPage

\* A Directory.__iter__ that does not skip the entries whose name starts
\* with a dot (the code with lines 165-166 left out).
Iter_with_hidden(tree, d) ==
  auto_index_pages(tree, d)
    \o [i \in DOMAIN tree[d].entries |-> EntryNode(tree, d, tree[d].entries[i])]

\* Directory.__iter__
Iter(tree, d) ==
  LET Shown(e) == ~IsHiddenName(e.name)
      shown == SelectSeq(tree[d].entries, Shown)
  IN auto_index_pages(tree, d) \o [i \in DOMAIN shown |-> EntryNode(tree, d, shown[i])]

\* Directory.pages: the loop over the nodes of the iteration
RECURSIVE PagesLoop(_, _)
PagesLoop(tree, nodes) ==
  IF nodes = <<>> THEN <<>>
  ELSE LET node == Head(nodes)
           out == IF IsPage(node)
                    THEN IF ~IsIndexCapable(node) THEN <<node>> ELSE <<>>
                  ELSE IF index_page(tree, node.id) # NoPage
                    THEN <<index_page(tree, node.id)>>
                  ELSE <<>>
       IN out \o PagesLoop(tree, Tail(nodes))

\* Directory.pages
pages(tree, d) == PagesLoop(tree, Iter(tree, d))

\* Directory.walk
RECURSIVE walk(_, _)
RECURSIVE WalkLoop(_, _)
WalkLoop(tree, nodes) ==
  IF nodes = <<>> THEN <<>>
  ELSE LET p == Head(nodes)
       IN (IF p.cls = "Directory" THEN <<p>> \o walk(tree, p.id) ELSE <<p>>)
          \o WalkLoop(tree, Tail(nodes))

walk(tree, d) == WalkLoop(tree, Iter(tree, d))

\* page.url()
url(tree, page) ==
  IF IsIndexCapable(page)
    THEN index_url(page.path, page.config, DirectoryConfig(tree, page.parent))
    ELSE page_url(page.path)

\* Page.parent_page, IndexPageMixIn.parent_page
parent_page(tree, page) ==
  IF IsIndexCapable(page)
    THEN IF tree[page.parent].parent # None
           THEN index_page(tree, tree[page.parent].parent)
         ELSE NoPage
    ELSE index_page(tree, page.parent)

\* Page.children, IndexPageMixIn.children
children(tree, page) ==
  IF IsIndexCapable(page) THEN pages(tree, page.parent) ELSE <<>>

\* Page.brothers, IndexPageMixIn.brothers
brothers(tree, page) ==
  LET Other(p) == url(tree, p) # url(tree, page)
  IN IF ~IsIndexCapable(page) THEN SelectSeq(pages(tree, page.parent), Other)
     ELSE IF tree[page.parent].parent = None THEN <<>>
     ELSE SelectSeq(pages(tree, tree[page.parent].parent), Other)

\* A pathlib.PurePosixPath as a configuration value
PathVal(p) == [t |-> "path", v |-> p]

\* AssetPage.page_info, RenderablePage.page_info
page_info(tree, page) ==
  LET info == [k \in {"path", "url"} |->
                 IF k = "path" THEN PathVal(RootedPosix(page.path))
                 ELSE StrVal(url(tree, page))]
  IN IF page.cls = "AssetPage" THEN ConfigInit(MapVal(info), None, <<>>)
     ELSE ConfigOverlay(1, info, <<page.config>>)

\* A plausible bug: a page whose URL is to be left out is still listed, and
\* only its own relations are left out.
RECURSIVE relations_info_lists_ignored(_, _, _)
relations_info_lists_ignored(tree, page, ignore_urls) ==
  LET ignore == ignore_urls \cup {url(tree, page)}
      Entry(p) ==
        MapVal(as_dict(ConfigOverlay(1,
                 IF url(tree, p) \in ignore
                   THEN [k \in {"children", "brothers", "parent"} |->
                           IF k = "parent" THEN NoneVal ELSE SeqVal(<<>>)]
                 ELSE relations_info_lists_ignored(tree, p, ignore),
                 <<page_info(tree, p)>>)))
      cs == children(tree, page)
      bs == brothers(tree, page)
      parent == parent_page(tree, page)
  IN [k \in {"children", "brothers", "parent"} |->
        CASE k = "children" -> SeqVal([i \in DOMAIN cs |-> Entry(cs[i])])
          [] k = "brothers" -> SeqVal([i \in DOMAIN bs |-> Entry(bs[i])])
          [] OTHER -> IF parent # NoPage
                        THEN MapVal(as_dict(page_info(tree, parent)))
                      ELSE NoneVal]

\* Page.relations_info
RECURSIVE relations_info(_, _, _)
relations_info(tree, page, ignore_urls) ==
  LET ignore == ignore_urls \cup {url(tree, page)}
      Listed(p) == url(tree, p) \notin ignore
      Entry(p) ==
        MapVal(as_dict(ConfigOverlay(1, relations_info(tree, p, ignore),
                                     <<page_info(tree, p)>>)))
      cs == SelectSeq(children(tree, page), Listed)
      bs == SelectSeq(brothers(tree, page), Listed)
      parent == parent_page(tree, page)
  IN [k \in {"children", "brothers", "parent"} |->
        CASE k = "children" -> SeqVal([i \in DOMAIN cs |-> Entry(cs[i])])
          [] k = "brothers" -> SeqVal([i \in DOMAIN bs |-> Entry(bs[i])])
          [] OTHER -> IF parent # NoPage
                        THEN MapVal(as_dict(page_info(tree, parent)))
                      ELSE NoneVal]

(***************************************************************************)
(* Specification SpecTree: a source tree of three directories is on disk;  *)
(* a page met by the traversal of the root is asked for its relations.     *)
(***************************************************************************)
MaxFiles == 2

\* The names of the directories; the root's own name is in no path.
TreeDirNames == << <<>>, <<"blog">>, <<"sub">> >>

NumDirs == Len(TreeDirNames)

\* The files a directory may hold: a name and the first characters of the file.
TreeFiles ==
  { [name |-> <<"a", "md">>, head |-> Marker],
    [name |-> <<"b", "txt">>, head |-> <<"x">>],
    [name |-> <<"index", "html">>, head |-> <<"x">>],
    [name |-> <<"index", "md">>, head |-> Marker],
    [name |-> <<"", "hidden">>, head |-> <<"x">>] }

\* The .bg.yml documents of the root directory; None when there is no file.
RootDocs ==
  { NoneVal,
    MapVal([k \in {"autoindex"} |-> StrVal("index.html")]),
    MapVal([k \in {"autoindex"} |->
              MapVal([j \in {"pagenate"} |-> IntVal(2)])]) }

\* The tree in which directory 3 lies in directory par3, the files of placed
\* (pairs of a directory and a file) are on disk, and the root has the
\* document doc; the operating system lists names in the order of NameOrder.
MakeTree(par3, placed, doc) ==
  LET ParentOf(d) == IF d = 1 THEN None ELSE IF d = 2 THEN 1 ELSE par3
      order == NameOrder
      SubDir(d, n) == {e \in 2..NumDirs : ParentOf(e) = d /\ TreeDirNames[e] = n}
      FileIn(d, n) == {p \in placed : p[1] = d /\ p[2].name = n}
      Present(d) ==
        LET Test(n) == SubDir(d, n) # {} \/ FileIn(d, n) # {}
        IN SelectSeq(order, Test)
      EntryOf(d, n) ==
        IF SubDir(d, n) # {}
          THEN [kind |-> "dir", name |-> n, head |-> <<>>, fm |-> EmptyDict,
                dir |-> CHOOSE e \in SubDir(d, n) : TRUE]
          ELSE [kind |-> "file", name |-> n,
                head |-> (CHOOSE p \in FileIn(d, n) : TRUE)[2].head,
                fm |-> EmptyDict, dir |-> None]
  IN [d \in 1..NumDirs |->
        [parent |-> ParentOf(d),
         name |-> TreeDirNames[d],
         doc |-> IF d = 1 THEN doc ELSE NoneVal,
         entries |-> [i \in DOMAIN Present(d) |-> EntryOf(d, Present(d)[i])]]]

\* The sets of at most MaxFiles files on disk, no two of one name in one
\* directory.
Placements ==
  LET Grow(S) == S \cup { s \cup {p} : s \in S, p \in (1..NumDirs) \X TreeFiles }
      RECURSIVE UpTo(_)
      UpTo(n) == IF n = 0 THEN {{}} ELSE Grow(UpTo(n - 1))
  IN { s \in UpTo(MaxFiles) :
         \A p, q \in s : (p[1] = q[1] /\ p[2].name = q[2].name) => p = q }

InitTree ==
  /\ \E par3 \in 1..2, placed \in Placements, doc \in RootDocs :
       fs = MakeTree(par3, placed, doc)
  /\ rel = [op |-> "none"]
  /\ IdleNotTree

\* The pages the traversal of the root meets
WalkedPages(tree) ==
  LET nodes == walk(tree, 1)
  IN {nodes[i] : i \in {j \in DOMAIN nodes : IsPage(nodes[j])}}

\* page.relations_info() of a page of the traversal
RelationsInfo ==
  /\ rel.op = "none"
  /\ \E page \in WalkedPages(fs) :
       rel' = [op |-> "relations_info", page |-> page, url |-> url(fs, page),
               info |-> relations_info(fs, page, {})]
  /\ UNCHANGED <<fs, notTree>>

NextTree == RelationsInfo

SpecTree == InitTree /\ [][NextTree]_vars

Range(s) == {s[i] : i \in DOMAIN s}

\* The entries listed under children and brothers of a relations mapping
ListedEntries(info) == Range(info["children"].v) \cup Range(info["brothers"].v)

\* The URLs of the children and brothers listed in a relations mapping, at
\* any depth
RECURSIVE ListedUrls(_)
ListedUrls(info) ==
  UNION { {e.v["url"].v} \cup ListedUrls(e.v) : e \in ListedEntries(info) }

\* The URLs of the parent entries of a relations mapping, at any depth
RECURSIVE ParentUrls(_)
ParentUrls(info) ==
  (IF info["parent"].t = "map" THEN {info["parent"].v["url"].v} ELSE {})
  \cup UNION { ParentUrls(e.v) : e \in ListedEntries(info) }

\* C9 as stated: the URL of a page is the URL of no entry of its own
\* relations_info(): of no listed child or brother, at any depth, and of no
\* parent entry, at the top or nested.  The code does not keep this: the
\* parent entry nested in a child of an index page is that index page.
C9_UrlInNoEntry ==
  rel.op = "relations_info" =>
    rel.url \notin ListedUrls(rel.info) \cup ParentUrls(rel.info)

\* C9, amended: the URL of a page is the URL of no child and of no brother
\* listed in its own relations_info(), at any depth; the parent entries are
\* not covered.
C9_UrlInNoListedEntry ==
  rel.op = "relations_info" => rel.url \notin ListedUrls(rel.info)

\* A page has a brother whose own brothers include the page: the brother is
\* listed with its relations, and the page is pruned from them.
C9_Witness ==
  /\ rel.op = "relations_info"
  /\ rel.info["brothers"].v # <<>>
  /\ \E b \in Range(brothers(fs, rel.page)) :
       \E q \in Range(brothers(fs, b)) : url(fs, q) = rel.url

(***************************************************************************)
(* Specification SpecSite: a source tree of three directories is on disk,  *)
(* the third of them possibly hidden, the root and blog possibly with a    *)
(* .bg.yml; a directory the traversal of the root reaches is iterated,     *)
(* asked for its index page or its pages, or the root is walked.           *)
(***************************************************************************)

\* The files a directory may hold here.
SiteFiles ==
  TreeFiles \cup { [name |-> <<"a", "html">>, head |-> <<"x">>] }

\* The names the third directory may have.
ThirdDirNames == { <<"sub">>, <<"", "git">> }

\* The .bg.yml documents of the root: none; autoindex a layout name, a bucket
\* specification, true, or a list of two specifications of which the first
\* matches no file here.
SiteRootDocs ==
  RootDocs \cup
  { MapVal([k \in {"autoindex"} |-> BoolVal(TRUE)]),
    MapVal([k \in {"autoindex"} |->
              SeqVal(<< MapVal([j \in {"source"} |-> StrVal(<<"*", "rst">>)]),
                        StrVal("list.html") >>)]) }

\* The .bg.yml documents of blog: none, or auto-indexing switched off.
SiteBlogDocs ==
  { NoneVal, MapVal([k \in {"autoindex"} |-> BoolVal(FALSE)]) }

\* The tree in which directory 3 has the name name3 and lies in directory
\* par3, the files of placed are on disk, and the directories have the
\* documents docs.
MakeSite(par3, name3, placed, docs) ==
  LET ParentOf(d) == IF d = 1 THEN None ELSE IF d = 2 THEN 1 ELSE par3
      NameOf(d) == IF d = 3 THEN name3 ELSE TreeDirNames[d]
      SubDir(d, n) == {e \in 2..NumDirs : ParentOf(e) = d /\ NameOf(e) = n}
      FileIn(d, n) == {p \in placed : p[1] = d /\ p[2].name = n}
      Present(d) ==
        LET Test(n) == SubDir(d, n) # {} \/ FileIn(d, n) # {}
        IN SelectSeq(NameOrder, Test)
      EntryOf(d, n) ==
        IF SubDir(d, n) # {}
          THEN [kind |-> "dir", name |-> n, head |-> <<>>, fm |-> EmptyDict,
                dir |-> CHOOSE e \in SubDir(d, n) : TRUE]
          ELSE [kind |-> "file", name |-> n,
                head |-> (CHOOSE p \in FileIn(d, n) : TRUE)[2].head,
                fm |-> EmptyDict, dir |-> None]
  IN [d \in 1..NumDirs |->
        [parent |-> ParentOf(d),
         name |-> NameOf(d),
         doc |-> docs[d],
         entries |-> [i \in DOMAIN Present(d) |-> EntryOf(d, Present(d)[i])]]]

\* The sets of at most MaxFiles files of SiteFiles on disk, no two of one
\* name in one directory.
SitePlacements ==
  LET Grow(S) == S \cup { s \cup {p} : s \in S, p \in (1..NumDirs) \X SiteFiles }
      RECURSIVE UpTo(_)
      UpTo(n) == IF n = 0 THEN {{}} ELSE Grow(UpTo(n - 1))
  IN { s \in UpTo(MaxFiles) :
         \A p, q \in s : (p[1] = q[1] /\ p[2].name = q[2].name) => p = q }

InitSite ==
  /\ \E par3 \in 1..2, name3 \in ThirdDirNames, placed \in SitePlacements,
        rootDoc \in SiteRootDocs, blogDoc \in SiteBlogDocs :
       site = MakeSite(par3, name3, placed, <<rootDoc, blogDoc, NoneVal>>)
  /\ trav = [op |-> "none"]
  /\ IdleNotSite

\* The directories for which a Directory object is made: the root, and those
\* its traversal yields
WalkedDirs(tree) ==
  LET nodes == walk(tree, 1)
  IN {1} \cup {nodes[i].id : i \in {j \in DOMAIN nodes : nodes[j].cls = "Directory"}}

\* iter(directory), with the auto-index pages it starts with
IterDirectory ==
  /\ trav.op = "none"
  /\ \E d \in WalkedDirs(site) :
       trav' = [op |-> "iter", dir |-> d, nodes |-> Iter(site, d),
                auto |-> auto_index_pages(site, d)]
  /\ UNCHANGED <<site, notSite>>

\* directory.index_page()
IndexPage ==
  /\ trav.op = "none"
  /\ \E d \in WalkedDirs(site) :
       trav' = [op |-> "index_page", dir |-> d, page |-> index_page(site, d)]
  /\ UNCHANGED <<site, notSite>>

\* directory.pages()
Pages ==
  /\ trav.op = "none"
  /\ \E d \in WalkedDirs(site) :
       trav' = [op |-> "pages", dir |-> d, nodes |-> Iter(site, d),
                pages |-> pages(site, d)]
  /\ UNCHANGED <<site, notSite>>

\* root.walk()
Walk ==
  /\ trav.op = "none"
  /\ trav' = [op |-> "walk", dir |-> 1, nodes |-> walk(site, 1)]
  /\ UNCHANGED <<site, notSite>>

NextSite == IterDirectory \/ IndexPage \/ Pages \/ Walk

SpecSite == InitSite /\ [][NextSite]_vars

\* The effective autoindex of directory d as the claims describe it: the
\* value of the nearest .bg.yml, from d upwards, that sets it.
RECURSIVE InheritedAutoindex(_, _)
InheritedAutoindex(tree, d) ==
  IF tree[d].doc.t = "map" /\ "autoindex" \in DOMAIN tree[d].doc.v
    THEN tree[d].doc.v["autoindex"]
  ELSE IF tree[d].parent = None THEN NoneVal
  ELSE InheritedAutoindex(tree, tree[d].parent)

\* The index.* entries of directory d that can be a user-authored index: the
\* extension is .html, or the content starts with the front-matter marker.
IndexCandidates(tree, d) ==
  { i \in DOMAIN tree[d].entries :
      LET e == tree[d].entries[i]
      IN /\ Len(e.name) >= 2 /\ e.name[1] = "index"
         /\ (e.name[Len(e.name)] = "html" \/ SubSeq(e.head, 1, 4) = Marker) }

\* C11: a directory yields auto-index pages only when its effective autoindex
\* is truthy and it has no user-authored index; when it yields none, its
\* iteration is its non-hidden filesystem entries only, and otherwise the
\* auto-index pages come first.
C11_AutoIndexOnlyWithoutUserIndex ==
  trav.op = "iter" =>
    LET d == trav.dir
        enabled == /\ Truthy(InheritedAutoindex(site, d))
                   /\ IndexCandidates(site, d) = {}
        shown == {i \in DOMAIN site[d].entries : site[d].entries[i].name[1] # ""}
    IN /\ trav.auto # <<>> => enabled
       /\ ~enabled => trav.auto = <<>>
       /\ \A i \in DOMAIN trav.auto : trav.auto[i].cls = "AutoIndexPage"
       /\ Len(trav.nodes) = Len(trav.auto) + Cardinality(shown)
       /\ SubSeq(trav.nodes, 1, Len(trav.auto)) = trav.auto
       /\ \A i \in (Len(trav.auto) + 1)..Len(trav.nodes) :
            trav.nodes[i].cls # "AutoIndexPage"

\* A directory with children whose effective autoindex is truthy is iterated,
\* and yields no auto-index page because it has a user-authored index.
C11_Witness ==
  /\ trav.op = "iter"
  /\ Truthy(InheritedAutoindex(site, trav.dir))
  /\ IndexCandidates(site, trav.dir) # {}
  /\ Len(trav.nodes) >= 2
  /\ trav.auto = <<>>

\* A directory is iterated and yields auto-index pages first.
C11_WitnessAuto ==
  /\ trav.op = "iter"
  /\ trav.auto # <<>>
  /\ Len(trav.nodes) > Len(trav.auto)

\* The URLs of the assets of the tree
AssetUrls(tree) ==
  {url(tree, p) : p \in {q \in WalkedPages(tree) : q.cls = "AssetPage"}}

\* C12 as stated: no AssetPage appears among the children or brothers listed
\* in the relations_info() of a page, at any depth.  The code does not keep
\* this: Directory.pages yields every page that is not index-capable, the
\* assets among them.
C12_NoAssetListed ==
  rel.op = "relations_info" =>
    ListedUrls(rel.info) \cap AssetUrls(fs) = {}

(***************************************************************************)
(* utils.py: build_all.                                                    *)
(*                                                                         *)
(* plan is what dir_.walk() yields, in order: Directory nodes and pages;   *)
(* of a page, whether its render raises (in relations_info, the converter, *)
(* the template lookup or the template), and what its destination file is  *)
(* before the build ("absent" or "old").  Node i has the destination file  *)
(* i; dest[i] is the state of that file: "absent", "old", "empty" (created  *)
(* or truncated by open('wb'), nothing written) or "new".                  *)
(***************************************************************************)
MaxPlan == 3

PlanNodes ==
  { [kind |-> "dir", fails |-> FALSE, before |-> "absent"] } \cup
  { [kind |-> "page", fails |-> f, before |-> b] :
      f \in BOOLEAN, b \in {"absent", "old"} }

InitBuild ==
  /\ \E n \in 0..MaxPlan : plan \in [1..n -> PlanNodes]
  /\ dest = [i \in DOMAIN plan |-> plan[i].before]
  /\ cursor = 1
  /\ bstat = "loop"
  /\ IdleNotBuild

\* for page in dir_.walk(): a Directory is passed over
SkipDirectory ==
  /\ bstat = "loop"
  /\ cursor <= Len(plan)
  /\ plan[cursor].kind = "dir"
  /\ cursor' = cursor + 1
  /\ UNCHANGED <<plan, dest, bstat, notBuild>>

\* out_path.parent.mkdir(...); out_path.open('wb'): the file is created, or
\* truncated when it exists
OpenOutput ==
  /\ bstat = "loop"
  /\ cursor <= Len(plan)
  /\ plan[cursor].kind = "page"
  /\ dest' = [dest EXCEPT ![cursor] = "empty"]
  /\ bstat' = "opened"
  /\ UNCHANGED <<plan, cursor, notBuild>>

\* page.render(fp) returns: the bytes are written, the file is closed
RenderReturns ==
  /\ bstat = "opened"
  /\ ~plan[cursor].fails
  /\ dest' = [dest EXCEPT ![cursor] = "new"]
  /\ cursor' = cursor + 1
  /\ bstat' = "loop"
  /\ UNCHANGED <<plan, notBuild>>

\* page.render(fp) raises before out.write: the with statement closes the
\* file, and the exception leaves the loop and build_all
RenderRaises ==
  /\ bstat = "opened"
  /\ plan[cursor].fails
  /\ bstat' = "raised"
  /\ UNCHANGED <<plan, dest, cursor, notBuild>>

\* The walk is exhausted: build_all returns
BuildReturns ==
  /\ bstat = "loop"
  /\ cursor > Len(plan)
  /\ bstat' = "returned"
  /\ UNCHANGED <<plan, dest, cursor, notBuild>>

NextBuild ==
  SkipDirectory \/ OpenOutput \/ RenderReturns \/ RenderRaises \/ BuildReturns

SpecBuild == InitBuild /\ [][NextBuild]_vars

\* build_all is over: it has returned or raised.
BuildOver == bstat \in {"returned", "raised"}

\* C13 as stated: after the build, the destination file of a page whose
\* render failed has not been created, truncated or changed, and a
\* destination file has new content only if its page's render completed.
\* The code does not keep the first part: the file is opened with 'wb'
\* before render is called.
C13_NoPartialEmit ==
  BuildOver =>
    \A i \in DOMAIN plan :
      /\ (plan[i].kind = "page" /\ plan[i].fails) => dest[i] = plan[i].before
      /\ dest[i] = "new" => (plan[i].kind = "page" /\ ~plan[i].fails)

\* C14 as stated: after the build, every page whose own render succeeds has
\* its destination file written, also when another page failed.  The code
\* does not keep this: the exception of the failing page ends the loop.
C14_FailureIsPerPage ==
  BuildOver =>
    \A i \in DOMAIN plan :
      (plan[i].kind = "page" /\ ~plan[i].fails) => dest[i] = "new"

(***************************************************************************)
(* watch.py: run and Watcher.                                              *)
(*                                                                         *)
(* One thread runs run(): it calls process_default(None) and then          *)
(* notifier.loop(), which calls process_default with each queued event in  *)
(* turn.  The kernel queues events at any time.  An event is known by      *)
(* whether its name is hidden (starts with '.' and is not '.bg.yml').      *)
(* wlog records what process_default did with each call.                   *)
(***************************************************************************)
MaxEvents == 3

\* The exceptions build_all raises here; each is a subclass of Exception.
BuildErrors == {"TemplateNotFound", "PermissionError"}

\* A plausible bug: only operating-system errors are caught (`except OSError`).
except_catches_os_errors(exc) == exc \in {"PermissionError"}

\* `except Exception as e`: whether the clause catches the exception
except_catches(exc) == exc \in BuildErrors

InitWatch ==
  /\ wpc = "start"
  /\ events = <<>>
  /\ arrived = 0
  /\ inflight = 0
  /\ wlog = <<>>
  /\ IdleNotWatch

\* The kernel queues an event of the watched tree
Notify ==
  /\ wpc \in {"start", "building", "loop"}
  /\ arrived < MaxEvents
  /\ \E hidden \in BOOLEAN : events' = Append(events, [hidden |-> hidden])
  /\ arrived' = arrived + 1
  /\ UNCHANGED <<wpc, inflight, wlog, notWatch>>

\* run: watcher.process_default(None), up to the call of build_all
InitialBuild ==
  /\ wpc = "start"
  /\ wpc' = "building"
  /\ inflight' = inflight + 1
  /\ wlog' = Append(wlog, "build")
  /\ UNCHANGED <<events, arrived, notWatch>>

\* notifier.loop: process_default(event) returns at once for a hidden name
SkipHidden ==
  /\ wpc = "loop"
  /\ events # <<>>
  /\ Head(events).hidden
  /\ events' = Tail(events)
  /\ wlog' = Append(wlog, "skip")
  /\ UNCHANGED <<wpc, arrived, inflight, notWatch>>

\* notifier.loop: process_default(event), up to the call of build_all
Rebuild ==
  /\ wpc = "loop"
  /\ events # <<>>
  /\ ~Head(events).hidden
  /\ events' = Tail(events)
  /\ wpc' = "building"
  /\ inflight' = inflight + 1
  /\ wlog' = Append(wlog, "build")
  /\ UNCHANGED <<arrived, notWatch>>

\* build_all returns; process_default returns to run or to the loop
BuildDone ==
  /\ wpc = "building"
  /\ inflight' = inflight - 1
  /\ wpc' = "loop"
  /\ wlog' = Append(wlog, "done")
  /\ UNCHANGED <<events, arrived, notWatch>>

\* build_all raises; the except clause prints the error, or the exception
\* leaves process_default and the watcher
BuildFailed ==
  /\ wpc = "building"
  /\ \E exc \in BuildErrors :
       /\ inflight' = inflight - 1
       /\ IF except_catches(exc)
            THEN wpc' = "loop" /\ wlog' = Append(wlog, "reported")
            ELSE wpc' = "dead" /\ wlog' = Append(wlog, "raised")
  /\ UNCHANGED <<events, arrived, notWatch>>

NextWatch ==
  Notify \/ InitialBuild \/ SkipHidden \/ Rebuild \/ BuildDone \/ BuildFailed

SpecWatch == InitWatch /\ [][NextWatch]_vars

\* How many entries of the log are the given one
CountLog(what) == Cardinality({i \in DOMAIN wlog : wlog[i] = what})

ClaimedUserIndex(tree, d) ==
  LET first == CHOOSE i \in IndexCandidates(tree, d) :
                 \A j \in IndexCandidates(tree, d) :
                   Rank(tree[d].entries[i].name) <= Rank(tree[d].entries[j].name)
  IN FilePage(tree, d, tree[d].entries[first])

\* The bucket specifications of directory d, and the children each matches
SpecsOf(tree, d) == AutoIndexConfs(InheritedAutoindex(tree, d))

MatchedBy(tree, d, conf) ==
  GetChildren(tree, d, DictGet(conf, "source", StrVal(<<"*">>)).v)

\* page is the first page of the bucket specification conf of directory d
IsFirstPageOf(tree, d, conf, page) ==
  /\ page.cls = "AutoIndexPage"
  /\ page.parent = d
  /\ page.page_num = 0
  /\ page.layout = DictGet(conf, "layout", StrVal("index.html"))
  /\ page.sources # <<>>
  /\ page.sources =
       SubSeq(MatchedBy(tree, d, conf), 1, Len(page.sources))

C16_WitnessUserIndex ==
  /\ trav.op = "index_page"
  /\ Cardinality(IndexCandidates(site, trav.dir)) = 2
  /\ Truthy(InheritedAutoindex(site, trav.dir))
  /\ trav.page.source = <<"index", "html">>

\* What the claims say pages() yields for the nodes of an iteration: a page
\* that is not index-capable as itself, and for a Directory its index page
\* when it has one.
RECURSIVE ClaimedPages(_, _)
ClaimedPages(tree, nodes) ==
  IF nodes = <<>> THEN <<>>
  ELSE LET n == Head(nodes)
           own == IF n.cls = "Directory"
                    THEN IF index_page(tree, n.id) = NoPage THEN <<>>
                         ELSE <<index_page(tree, n.id)>>
                  ELSE IF n.cls \in {"IndexPage", "AutoIndexPage"} THEN <<>>
                  ELSE <<n>>
       IN own \o ClaimedPages(tree, Tail(nodes))

\* The first part of C17: pages() is made of the nodes of the iteration, in
\* its order, and holds no Directory and no IndexPage or AutoIndexPage of the
\* directory itself.  The code keeps this.
C17_PagesOfIteration ==
  trav.op = "pages" =>
    /\ trav.pages = ClaimedPages(site, trav.nodes)
    /\ \A i \in DOMAIN trav.pages :
         /\ trav.pages[i].cls # "Directory"
         /\ ~(trav.pages[i].cls \in {"IndexPage", "AutoIndexPage"}
              /\ trav.pages[i].parent = trav.dir)

\* C17 as stated: the first part, and hence the directory's own index page
\* is never among its pages().  The code does not keep the conclusion: an
\* index.html that is not renderable is the directory's index page and an
\* AssetPage, which pages() yields.
C17_OwnIndexNotInPages ==
  trav.op = "pages" =>
    /\ trav.pages = ClaimedPages(site, trav.nodes)
    /\ \A i \in DOMAIN trav.pages :
         /\ trav.pages[i].cls # "Directory"
         /\ ~(trav.pages[i].cls \in {"IndexPage", "AutoIndexPage"}
              /\ trav.pages[i].parent = trav.dir)
         /\ trav.pages[i] # index_page(site, trav.dir)

\* The directory a node lies in.
NodeDir(tree, n) == IF n.cls = "Directory" THEN tree[n.id].parent ELSE n.parent

\* Directory d is directory a or lies below it.
RECURSIVE Below(_, _, _)
Below(tree, d, a) ==
  IF d = a THEN TRUE
  ELSE IF tree[d].parent = None THEN FALSE
  ELSE Below(tree, tree[d].parent, a)

\* Neither directory d nor a directory above it has a name that starts with
\* a dot.
RECURSIVE VisibleDir(_, _)
VisibleDir(tree, d) ==
  IF tree[d].parent = None THEN TRUE
  ELSE ~IsHiddenName(tree[d].name) /\ VisibleDir(tree, tree[d].parent)

\* C18: walk() from the root yields every filesystem entry that is not hidden
\* exactly once and nothing hidden or below a hidden entry; the descendants
\* of a Directory follow it without a gap, before its next sibling; the
\* auto-index pages of a directory come before its filesystem entries.
C18_WalkIsPreOrder ==
  trav.op = "walk" =>
    LET W == trav.nodes
        IsDirOf(n, d) == n.cls = "Directory" /\ n.id = d
        IsFileOf(n, d, name) ==
          /\ n.cls \notin {"Directory", "AutoIndexPage"}
          /\ n.parent = d
          /\ n.source = name
    IN /\ \A d \in 2..NumDirs :
            Cardinality({i \in DOMAIN W : IsDirOf(W[i], d)})
              = IF VisibleDir(site, d) THEN 1 ELSE 0
       /\ \A d \in 1..NumDirs : \A k \in DOMAIN site[d].entries :
            site[d].entries[k].kind = "file" =>
              Cardinality({i \in DOMAIN W :
                             IsFileOf(W[i], d, site[d].entries[k].name)})
                = IF VisibleDir(site, d) /\ ~IsHiddenName(site[d].entries[k].name)
                    THEN 1 ELSE 0
       /\ \A i \in DOMAIN W : VisibleDir(site, NodeDir(site, W[i]))
       /\ \A i \in DOMAIN W :
            W[i].cls = "Directory" =>
              LET D == {j \in DOMAIN W : Below(site, NodeDir(site, W[j]), W[i].id)}
              IN D = (i + 1)..(i + Cardinality(D))
       /\ \A i, j \in DOMAIN W :
            (/\ W[i].cls = "AutoIndexPage"
             /\ W[j].cls # "AutoIndexPage"
             /\ NodeDir(site, W[j]) = W[i].parent) => i < j

\* A walk of a tree that holds a hidden directory with an entry in it, and
\* that yields an auto-index page of the root, then a Directory, then a page
\* of that Directory.
C18_Witness ==
  /\ trav.op = "walk"
  /\ \E d \in 2..NumDirs : IsHiddenName(site[d].name) /\ site[d].entries # <<>>
  /\ \E i, j, k \in DOMAIN trav.nodes :
       /\ i < j /\ j < k
       /\ trav.nodes[i].cls = "AutoIndexPage" /\ trav.nodes[i].parent = 1
       /\ trav.nodes[j].cls = "Directory"
       /\ trav.nodes[k].cls # "Directory" /\ trav.nodes[k].parent = trav.nodes[j].id

\* A walk that yields a Directory, a page below it, and then the next
\* sibling of the Directory.
C18_WitnessSibling ==
  /\ trav.op = "walk"
  /\ \E j, k, l \in DOMAIN trav.nodes :
       /\ j < k /\ k < l
       /\ trav.nodes[j].cls = "Directory"
       /\ trav.nodes[k].cls # "Directory" /\ trav.nodes[k].parent = trav.nodes[j].id
       /\ NodeDir(site, trav.nodes[l]) = NodeDir(site, trav.nodes[j])

\* The greatest of a non-empty finite set of numbers
MaxOf(S) == CHOOSE n \in S : \A m \in S : m <= n

\* The nesting of relations_info calls that built a relations mapping: the
\* call itself, and the deepest of the calls made for its listed entries
RECURSIVE Nesting(_)
Nesting(info) ==
  1 + MaxOf({0} \cup {Nesting(e.v) : e \in ListedEntries(info)})

\* The depth of the directory tree in levels, the root being level 1
TreeDepth(tree) == MaxOf({Len(DirPath(tree, d)) + 1 : d \in DOMAIN tree})

\* The URLs of the pages of the tree
PageUrls(tree) == {url(tree, p) : p \in WalkedPages(tree)}

\* The part of C19 the code keeps: relations_info() returns, and no URL
\* occurs twice on one path of nested calls, so the nesting never exceeds the
\* number of pages of the tree.
C19_NestingWithinPageCount ==
  rel.op = "relations_info" => Nesting(rel.info) <= Cardinality(PageUrls(fs))

\* C19 as stated: the nesting of relations_info calls is bounded by the depth
\* of the directory tree alone: in a tree of h levels it never exceeds h + 1,
\* the length of the longest chain going down from the root's index page
\* through one index page per level to a page of the deepest directory.  The
\* code does not keep this: a call goes on through the brothers of each page,
\* so the nesting grows with the number of pages side by side.
C19_NestingBoundedByTreeDepth ==
  rel.op = "relations_info" => Nesting(rel.info) <= TreeDepth(fs) + 1

\* C20: the pages walk() yields from the root have pairwise distinct output
\* paths, so build_all writes no destination file twice.  The code does not
\* keep this: an article a.md and an asset a.html of one directory both have
\* the path a.html, and so have the pages of a paginated bucket whose target
\* does not use the page number.
C20_OutputPathsDistinct ==
  trav.op = "walk" =>
    \A i, j \in DOMAIN trav.nodes :
      (/\ i # j
       /\ IsPage(trav.nodes[i])
       /\ IsPage(trav.nodes[j])) => trav.nodes[i].path # trav.nodes[j].path

\* The same for the pages that are not auto-index pages: violated by a.md
\* next to a.html alone.
C20_FilePathsDistinct ==
  trav.op = "walk" =>
    \A i, j \in DOMAIN trav.nodes :
      (/\ i # j
       /\ IsPage(trav.nodes[i]) /\ trav.nodes[i].cls # "AutoIndexPage"
       /\ IsPage(trav.nodes[j]) /\ trav.nodes[j].cls # "AutoIndexPage")
        => trav.nodes[i].path # trav.nodes[j].path

\* The same for the auto-index pages: violated by the two pages of one
\* paginated bucket.
C20_AutoIndexPathsDistinct ==
  trav.op = "walk" =>
    \A i, j \in DOMAIN trav.nodes :
      (/\ i # j
       /\ trav.nodes[i].cls = "AutoIndexPage"
       /\ trav.nodes[j].cls = "AutoIndexPage")
        => trav.nodes[i].path # trav.nodes[j].path

====
